---- MODULE Spec2Model ----
(***************************************************************************)
(* py-caskdb: a Bitcask-style log-structured key-value store.              *)
(*                                                                         *)
(* The model follows src/format.py (record codec) and src/disk_store.py    *)
(* (KeyDir, Registry, FileDescriptors, DiskStorage).  Strings are          *)
(* sequences of Unicode code points, files are sequences of bytes, and     *)
(* the file system maps file names to file contents.  Python's buffered    *)
(* file objects are modelled by their content as seen through the handle   *)
(* (every handle is flushed by close before a file is re-read from disk).  *)
(***************************************************************************)
EXTENDS Integers, Sequences, FiniteSets, TLC

\* ------------------------------------------------------------------------
\* Bounds of the model
\* ------------------------------------------------------------------------

\* Number of public operations (set, delete, split, compact, close, open)
\* in one history.
MaxOps == 4

\* Keys and values offered to set/delete: "a", "é" and "", "x", "é"
\* ("é" is U+00E9, two bytes in UTF-8).
Keys == {<<97>>, <<233>>}

Values == {<<>>, <<120>>, <<233>>}

\* Bounds offered to scan: "", "a", "aa", "ab", "b", "é", "ê".
ScanBounds == {<<>>, <<97>>, <<97, 97>>, <<97, 98>>, <<98>>, <<233>>, <<234>>}

\* Values of the wall clock (UTC epoch seconds).
Timestamps == 1700000000 .. 1700000001

\* max_size arguments of the constructor: unlimited, and a threshold that
\* one 18-byte record meets exactly.
MaxSizes == {-1, 18}

\* ------------------------------------------------------------------------
\* Python helpers: str comparison, utf-8, struct.pack/unpack, slicing
\* ------------------------------------------------------------------------

Min(a, b) == IF a < b THEN a ELSE b

\* data[lo:hi] of a bytes object (0-based, end-exclusive, clipped).
Slice(data, lo, hi) == SubSeq(data, lo + 1, Min(hi, Len(data)))

RECURSIVE StrLess(_, _)
\* a < b for Python str: lexicographic on code points.
StrLess(a, b) ==
    IF b = <<>> THEN FALSE
    ELSE IF a = <<>> THEN TRUE
    ELSE IF Head(a) # Head(b) THEN Head(a) < Head(b)
    ELSE StrLess(Tail(a), Tail(b))

StrLeq(a, b) == a = b \/ StrLess(a, b)

RECURSIVE Utf8Encode(_)
\* str.encode("utf-8") for code points below U+0800.
Utf8Encode(s) ==
    IF s = <<>> THEN <<>>
    ELSE (IF Head(s) < 128
          THEN <<Head(s)>>
          ELSE <<192 + (Head(s) \div 64), 128 + (Head(s) % 64)>>)
         \o Utf8Encode(Tail(s))

RECURSIVE Utf8Valid(_)
\* Whether bytes.decode("utf-8") succeeds (one- and two-byte sequences).
Utf8Valid(b) ==
    IF b = <<>> THEN TRUE
    ELSE IF Head(b) < 128 THEN Utf8Valid(Tail(b))
    ELSE /\ Head(b) >= 194 /\ Head(b) < 224
         /\ Len(b) >= 2
         /\ b[2] >= 128 /\ b[2] < 192
         /\ Utf8Valid(Tail(Tail(b)))

RECURSIVE Utf8Decode(_)
\* bytes.decode("utf-8") of a valid byte string.
Utf8Decode(b) ==
    IF b = <<>> THEN <<>>
    ELSE IF Head(b) < 128 THEN <<Head(b)>> \o Utf8Decode(Tail(b))
    ELSE <<(Head(b) - 192) * 64 + (b[2] - 128)>> \o Utf8Decode(Tail(Tail(b)))

\* pack("!L", n): four bytes, big-endian.
PackL(n) ==
    <<(n \div 16777216) % 256, (n \div 65536) % 256, (n \div 256) % 256, n % 256>>

\* unpack("!L", b)[0]
UnpackL(b) == b[1] * 16777216 + b[2] * 65536 + b[3] * 256 + b[4]

RECURSIVE WeightedSum(_, _)
WeightedSum(b, i) ==
    IF b = <<>> THEN 0 ELSE i * (Head(b) + 1) + WeightedSum(Tail(b), i + 1)

\* zlib.crc32 is a library routine; it is modelled by a position-weighted
\* checksum of the same bytes, which like CRC-32 changes whenever one byte
\* of its input changes or the input is cut short.
Crc32(b) == WeightedSum(b, 1)

\* ------------------------------------------------------------------------
\* format.py: the record codec
\* ------------------------------------------------------------------------

HEADER_SIZE == 12

\* A raised exception is carried in the field exc; NoExc means none.
NoExc == "none"

\* encode_header: the negative-size check, then pack("!LLL", ...).
encode_header(timestamp, key_size, value_size) ==
    IF key_size < 0 \/ value_size < 0
    THEN [exc |-> "ValueError: Wrong size", data |-> <<>>]
    ELSE [exc |-> NoExc,
          data |-> PackL(timestamp) \o PackL(key_size) \o PackL(value_size)]

\* decode_header: unpack("!LLL", data) needs exactly 12 bytes.
decode_header(data) ==
    IF Len(data) # HEADER_SIZE
    THEN [exc |-> "struct.error", timestamp |-> 0, key_size |-> 0, value_size |-> 0]
    ELSE [exc |-> NoExc,
          timestamp |-> UnpackL(SubSeq(data, 1, 4)),
          key_size |-> UnpackL(SubSeq(data, 5, 8)),
          value_size |-> UnpackL(SubSeq(data, 9, 12))]

\* encode_kv: (len(bkey) + len(bvalue), crc || header || bkey || bvalue).
encode_kv(timestamp, key, value) ==
    LET bkey == Utf8Encode(key)
        bvalue == Utf8Encode(value)
        crc == Crc32(PackL(timestamp) \o bkey \o bvalue)
        header == encode_header(timestamp, Len(bkey), Len(bvalue))
    IN [size |-> Len(bkey) + Len(bvalue),
        data |-> PackL(crc) \o header.data \o bkey \o bvalue]

\* Mutant of decode_kv: the stored CRC is read and never compared.
decode_kv_NoCrcCheck(data) ==
    LET failed(e) == [exc |-> e, timestamp |-> 0, key |-> <<>>, value |-> <<>>]
    IN IF Len(Slice(data, 0, 4)) # 4 THEN failed("struct.error")
       ELSE LET h == decode_header(Slice(data, 4, 4 + HEADER_SIZE))
            IN IF h.exc # NoExc THEN failed(h.exc)
               ELSE LET bkey == Slice(data, 4 + HEADER_SIZE,
                                      4 + HEADER_SIZE + h.key_size)
                        bvalue == Slice(data, 4 + HEADER_SIZE + h.key_size,
                                        4 + HEADER_SIZE + h.key_size + h.value_size)
                    IN IF ~(Utf8Valid(bkey) /\ Utf8Valid(bvalue))
                       THEN failed("UnicodeDecodeError")
                       ELSE [exc |-> NoExc, timestamp |-> h.timestamp,
                             key |-> Utf8Decode(bkey), value |-> Utf8Decode(bvalue)]

\* decode_kv: parse, slice, recompute the CRC, compare, decode utf-8.
decode_kv(data) ==
    LET failed(e) == [exc |-> e, timestamp |-> 0, key |-> <<>>, value |-> <<>>]
    IN IF Len(Slice(data, 0, 4)) # 4 THEN failed("struct.error")
       ELSE LET actual_crc == UnpackL(Slice(data, 0, 4))
                h == decode_header(Slice(data, 4, 4 + HEADER_SIZE))
            IN IF h.exc # NoExc THEN failed(h.exc)
               ELSE LET bkey == Slice(data, 4 + HEADER_SIZE,
                                      4 + HEADER_SIZE + h.key_size)
                        bvalue == Slice(data, 4 + HEADER_SIZE + h.key_size,
                                        4 + HEADER_SIZE + h.key_size + h.value_size)
                        crc == Crc32(PackL(h.timestamp) \o bkey \o bvalue)
                    IN IF crc # actual_crc THEN failed("ValueError: Wrong CRC")
                       ELSE IF ~(Utf8Valid(bkey) /\ Utf8Valid(bvalue))
                       THEN failed("UnicodeDecodeError")
                       ELSE [exc |-> NoExc, timestamp |-> h.timestamp,
                             key |-> Utf8Decode(bkey), value |-> Utf8Decode(bvalue)]

\* ------------------------------------------------------------------------
\* Python dict, str(int), int(str), sorted
\* ------------------------------------------------------------------------

EmptyDict == [x \in {} |-> 0]

DictSet(d, k, v) == [x \in DOMAIN d \cup {k} |-> IF x = k THEN v ELSE d[x]]

DictDel(d, k) == [x \in DOMAIN d \ {k} |-> d[x]]

RECURSIVE FormatInt(_)
\* str(n) for n >= 0: the decimal digits as code points.
FormatInt(n) == IF n < 10 THEN <<48 + n>> ELSE FormatInt(n \div 10) \o <<48 + (n % 10)>>

RECURSIVE ParseInt(_)
\* int(s) for a string of decimal digits.
ParseInt(s) == IF s = <<>> THEN 0 ELSE ParseInt(SubSeq(s, 1, Len(s) - 1)) * 10 + (s[Len(s)] - 48)

RECURSIVE SortedInts(_)
\* sorted(S) for a set of integers.
SortedInts(S) ==
    IF S = {} THEN <<>>
    ELSE LET m == CHOOSE x \in S : \A y \in S : x <= y
         IN <<m>> \o SortedInts(S \ {m})

RECURSIVE SortedStrs(_)
\* The keys of a SortedDict of str, in ascending order.
SortedStrs(S) ==
    IF S = {} THEN <<>>
    ELSE LET m == CHOOSE x \in S : \A y \in S : StrLeq(x, y)
         IN <<m>> \o SortedStrs(S \ {m})

\* ------------------------------------------------------------------------
\* disk_store.py: KeyDir
\* ------------------------------------------------------------------------

\* KeyDirEntry(file_id, size, pos, tstamp)
KeyDirEntry(file_id, size, pos, tstamp) ==
    [file_id |-> file_id, size |-> size, pos |-> pos, tstamp |-> tstamp]

\* Mutant of KeyDir.set: an existing entry is kept (setdefault).
KeyDir_set_KeepsFirst(dir, key, entry) ==
    IF key \in DOMAIN dir THEN dir ELSE DictSet(dir, key, entry)

\* KeyDir.set
KeyDir_set(dir, key, entry) == DictSet(dir, key, entry)

\* KeyDir.delete: removes the key when it is present.
KeyDir_delete(dir, key) == IF key \in DOMAIN dir THEN DictDel(dir, key) ELSE dir

\* KeyDir.keys
KeyDir_keys(dir) == SortedStrs(DOMAIN dir)

\* SortedDict.bisect_left(start): the number of keys below start.
bisect_left(dir, start) == Cardinality({k \in DOMAIN dir : StrLess(k, start)})

RECURSIVE RangeLoop(_, _, _)
\* The for loop of KeyDir.range: yield while key <= end, break otherwise.
RangeLoop(keys, idx, end) ==
    IF idx > Len(keys) THEN <<>>
    ELSE IF StrLeq(keys[idx], end)
         THEN <<keys[idx]>> \o RangeLoop(keys, idx + 1, end)
         ELSE <<>>

\* KeyDir.range(start, end): the sequence of keys the generator yields.
KeyDir_range(dir, start, end) ==
    LET keys == KeyDir_keys(dir)
        start_idx == bisect_left(dir, start)
    IN IF start_idx = Len(keys) THEN <<>>
       ELSE RangeLoop(keys, start_idx + 1, end)

\* ------------------------------------------------------------------------
\* disk_store.py: Registry and FileDescriptors
\*
\* The engine and its directory are one record w:
\*   max_size, size, registry, fds, keydir   the DiskStorage object
\*   disk                                    path -> bytes of each segment file
\*   registry_json                           the registry file: exists, obj
\*   exc                                     the exception raised, or NoExc
\* ------------------------------------------------------------------------

Raise(w, e) == [w EXCEPT !.exc = e]

\* f"data_{file_id:0>2}.bin"
DataFileName(file_id) ==
    LET digits == FormatInt(file_id)
    IN <<100, 97, 116, 97, 95>>
       \o (IF Len(digits) < 2 THEN <<48>> ELSE <<>>) \o digits
       \o <<46, 98, 105, 110>>

\* Registry.__init__: the id -> name map read from the registry file.
Registry_load(registry_json) ==
    IF registry_json.exists
    THEN LET obj == registry_json.obj
             ids == {ParseInt(s) : s \in DOMAIN obj}
         IN [file_id \in ids |-> obj[CHOOSE s \in DOMAIN obj : ParseInt(s) = file_id]]
    ELSE EmptyDict

\* Registry.save: the map written as a JSON object with str(file_id) keys.
Registry_save(w) ==
    [w EXCEPT !.registry_json =
        [exists |-> TRUE,
         obj |-> [s \in {FormatInt(file_id) : file_id \in DOMAIN w.registry} |->
                     w.registry[ParseInt(s)]]]]

\* Registry.sorted_key_ids
sorted_key_ids(registry) == SortedInts(DOMAIN registry)

\* Registry.data_path (all files live in the directory of the registry file)
data_path(registry, file_id) == registry[file_id]

\* Registry.active_file_id of a non-empty registry
active_file_id(registry) == CHOOSE x \in DOMAIN registry : \A y \in DOMAIN registry : y <= x

\* Mutant of Registry.add_file: the new id is the smallest one not in use.
Registry_add_file_FirstFree(w) ==
    LET file_id == CHOOSE n \in 0 .. Cardinality(DOMAIN w.registry) :
                       /\ n \notin DOMAIN w.registry
                       /\ \A m \in 0 .. (n - 1) : m \in DOMAIN w.registry
        data_file == DataFileName(file_id)
        w1 == [w EXCEPT !.registry = DictSet(w.registry, file_id, data_file)]
    IN IF data_file \in DOMAIN w.disk
       THEN [w |-> Raise(w1, "RuntimeError: File already exist"), file_id |-> file_id]
       ELSE [w |-> w1, file_id |-> file_id]

\* Registry.add_file: the new id is entered before the name collision is detected.
Registry_add_file(w) ==
    LET file_id == IF DOMAIN w.registry # {} THEN active_file_id(w.registry) + 1 ELSE 0
        data_file == DataFileName(file_id)
        w1 == [w EXCEPT !.registry = DictSet(w.registry, file_id, data_file)]
    IN IF data_file \in DOMAIN w.disk
       THEN [w |-> Raise(w1, "RuntimeError: File already exist"), file_id |-> file_id]
       ELSE [w |-> w1, file_id |-> file_id]

\* Mutant of Registry.remove_file: the id is dropped, the file is left on disk.
Registry_remove_file_KeepsFile(w, file_id) ==
    [w EXCEPT !.registry = DictDel(w.registry, file_id)]

\* Registry.remove_file: remove the file when it is there, then drop the id.
Registry_remove_file(w, file_id) ==
    LET path == data_path(w.registry, file_id)
    IN [w EXCEPT !.disk = IF path \in DOMAIN w.disk THEN DictDel(w.disk, path) ELSE w.disk,
                 !.registry = DictDel(w.registry, file_id)]

RECURSIVE FileDescriptors_init_Truncates(_, _)
\* Mutant of FileDescriptors.__init__: every file is opened "w+b".
FileDescriptors_init_Truncates(w, ids) ==
    IF ids = <<>> THEN w
    ELSE LET file_id == Head(ids)
             path == data_path(w.registry, file_id)
             w1 == [w EXCEPT !.disk = DictSet(w.disk, path, <<>>),
                             !.fds = DictSet(w.fds, file_id, path),
                             !.fpos = DictSet(w.fpos, file_id, 0)]
         IN FileDescriptors_init_Truncates(w1, Tail(ids))

RECURSIVE FileDescriptors_init(_, _)
\* FileDescriptors.__init__: open "r+b" a file that exists, create it otherwise.
FileDescriptors_init(w, ids) ==
    IF ids = <<>> THEN w
    ELSE LET file_id == Head(ids)
             path == data_path(w.registry, file_id)
             w1 == [w EXCEPT !.disk = IF path \in DOMAIN w.disk THEN w.disk
                                      ELSE DictSet(w.disk, path, <<>>),
                             !.fds = DictSet(w.fds, file_id, path),
                             !.fpos = DictSet(w.fpos, file_id, 0)]
         IN FileDescriptors_init(w1, Tail(ids))

\* FileDescriptors.open: "w+b" creates the file, or truncates it.
FileDescriptors_open(w, file_id) ==
    LET path == data_path(w.registry, file_id)
    IN [w EXCEPT !.disk = DictSet(w.disk, path, <<>>),
                 !.fds = DictSet(w.fds, file_id, path),
                 !.fpos = DictSet(w.fpos, file_id, 0)]

\* FileDescriptors.close
FileDescriptors_close(w, file_id) ==
    IF file_id \notin DOMAIN w.fds THEN Raise(w, "ValueError: File not opened")
    ELSE [w EXCEPT !.fds = DictDel(w.fds, file_id),
                   !.fpos = DictDel(w.fpos, file_id)]

\* fd.seek(offset); fd.write(data) on a file of the given content.
WriteAt(content, offset, data) ==
    IF offset >= Len(content)
    THEN content \o [i \in 1 .. (offset - Len(content)) |-> 0] \o data
    ELSE SubSeq(content, 1, offset) \o data
         \o SubSeq(content, offset + Len(data) + 1, Len(content))

\* fd.seek(pos); fd.read(n)
ReadAt(content, pos, n) == Slice(content, pos, pos + n)

\* Where fd.seek(pos); fd.read(n) leaves the position of the file object.
TellAfterRead(content, pos, n) == pos + Len(ReadAt(content, pos, n))

\* The position of the file object of file_id becomes pos.
Moved(w, file_id, pos) == [w EXCEPT !.fpos = DictSet(w.fpos, file_id, pos)]

\* ------------------------------------------------------------------------
\* disk_store.py: DiskStorage
\* ------------------------------------------------------------------------

\* DiskStorage._registry_add_file
registry_add_file(w) ==
    LET r == Registry_add_file(w)
    IN IF r.w.exc # NoExc THEN r.w
       ELSE Registry_save([FileDescriptors_open(r.w, r.file_id) EXCEPT !.size = 0])

RECURSIVE FillLoop(_, _, _)
\* The while loop of DiskStorage._fill_keydir, and the assertion after it.
FillLoop(w, file_id, pos) ==
    LET content == w.disk[w.fds[file_id]]
    IN IF pos < w.size
       THEN LET h == decode_header(ReadAt(content, pos + 4, HEADER_SIZE))
                w1 == Moved(w, file_id, TellAfterRead(content, pos + 4, HEADER_SIZE))
            IN IF h.exc # NoExc THEN Raise(w1, h.exc)
               ELSE LET read_size == 4 + HEADER_SIZE + h.key_size + h.value_size
                        d == decode_kv(ReadAt(content, pos, read_size))
                        w2 == Moved(w1, file_id, TellAfterRead(content, pos, read_size))
                        entry == KeyDirEntry(file_id, h.key_size + h.value_size,
                                             pos, d.timestamp)
                    IN IF d.exc # NoExc THEN Raise(w2, d.exc)
                       ELSE FillLoop([w2 EXCEPT !.keydir = KeyDir_set(w2.keydir, d.key, entry)],
                                     file_id, pos + read_size)
       ELSE IF pos # w.size THEN Raise(w, "AssertionError") ELSE w

\* DiskStorage._fill_keydir
fill_keydir(w, file_id) ==
    IF file_id \notin DOMAIN w.fds THEN Raise(w, "ValueError: File not opened")
    ELSE LET end == Len(w.disk[w.fds[file_id]])
         IN FillLoop([Moved(w, file_id, end) EXCEPT !.size = end], file_id, 0)

RECURSIVE FillAll_Descending(_, _)
\* Mutant of the replay loop: the segments are replayed newest first.
FillAll_Descending(w, ids) ==
    IF ids = <<>> \/ w.exc # NoExc THEN w
    ELSE FillAll_Descending(fill_keydir(w, ids[Len(ids)]), SubSeq(ids, 1, Len(ids) - 1))

RECURSIVE FillAll(_, _)
\* The loop of DiskStorage.__init__ over sorted_key_ids.
FillAll(w, ids) ==
    IF ids = <<>> \/ w.exc # NoExc THEN w
    ELSE FillAll(fill_keydir(w, Head(ids)), Tail(ids))

\* DiskStorage.__init__ on a directory holding the given files.
DiskStorage_init(max_size, disk, registry_json) ==
    LET w0 == [max_size |-> max_size, size |-> 0,
               registry |-> Registry_load(registry_json),
               fds |-> EmptyDict, fpos |-> EmptyDict, keydir |-> EmptyDict,
               disk |-> disk, registry_json |-> registry_json, exc |-> NoExc]
        w1 == FileDescriptors_init(w0, sorted_key_ids(w0.registry))
        w2 == IF DOMAIN w1.registry = {} THEN registry_add_file(w1) ELSE w1
    IN FillAll(w2, sorted_key_ids(w2.registry))

\* DiskStorage.split
split(w) == registry_add_file(w)

\* Mutant of the rollover test: the comparison is reversed.
ShouldSplit_Reversed(max_size, size) == max_size # -1 /\ max_size > size

\* Mutant of the rollover test: >= in place of >.
ShouldSplit_AtLeast(max_size, size) == max_size # -1 /\ size >= max_size

\* The rollover test at the end of DiskStorage.set.
ShouldSplit(max_size, size) == max_size # -1 /\ size > max_size

\* Mutant of DiskStorage.set: _size is not advanced by the write.
DiskStorage_set_KeepsSize(w, key, value, timestamp) ==
    IF DOMAIN w.registry = {} THEN Raise(w, "ValueError: Empty registry is not allowed")
    ELSE IF active_file_id(w.registry) \notin DOMAIN w.fds
    THEN Raise(w, "ValueError: File not opened")
    ELSE LET active == active_file_id(w.registry)
             path == w.fds[active]
             e == encode_kv(timestamp, key, value)
             offset == w.size
             entry == KeyDirEntry(active, e.size, offset, timestamp)
             w1 == [w EXCEPT !.disk = DictSet(w.disk, path, WriteAt(w.disk[path], offset, e.data)),
                             !.fpos = DictSet(w.fpos, active, offset + Len(e.data)),
                             !.keydir = KeyDir_set(w.keydir, key, entry)]
         IN IF ShouldSplit(w1.max_size, w1.size) THEN split(w1) ELSE w1

\* Mutant of DiskStorage.set: the record is written where the file object
\* stands, without the seek to _size.
DiskStorage_set_NoSeek(w, key, value, timestamp) ==
    IF DOMAIN w.registry = {} THEN Raise(w, "ValueError: Empty registry is not allowed")
    ELSE IF active_file_id(w.registry) \notin DOMAIN w.fds
    THEN Raise(w, "ValueError: File not opened")
    ELSE LET active == active_file_id(w.registry)
             path == w.fds[active]
             e == encode_kv(timestamp, key, value)
             offset == w.fpos[active]
             entry == KeyDirEntry(active, e.size, offset, timestamp)
             w1 == [w EXCEPT !.disk = DictSet(w.disk, path, WriteAt(w.disk[path], offset, e.data)),
                             !.fpos = DictSet(w.fpos, active, offset + Len(e.data)),
                             !.size = w.size + 4 + HEADER_SIZE + e.size,
                             !.keydir = KeyDir_set(w.keydir, key, entry)]
         IN IF ShouldSplit(w1.max_size, w1.size) THEN split(w1) ELSE w1

\* Mutant of DiskStorage.set: the record goes to the end of the segment of
\* smallest id.
DiskStorage_set_WritesOldest(w, key, value, timestamp) ==
    IF DOMAIN w.registry = {} THEN Raise(w, "ValueError: Empty registry is not allowed")
    ELSE IF active_file_id(w.registry) \notin DOMAIN w.fds
    THEN Raise(w, "ValueError: File not opened")
    ELSE LET active == Head(sorted_key_ids(w.registry))
             path == w.fds[active]
             e == encode_kv(timestamp, key, value)
             offset == Len(w.disk[path])
             entry == KeyDirEntry(active, e.size, offset, timestamp)
             w1 == [w EXCEPT !.disk = DictSet(w.disk, path, WriteAt(w.disk[path], offset, e.data)),
                             !.fpos = DictSet(w.fpos, active, offset + Len(e.data)),
                             !.size = w.size + 4 + HEADER_SIZE + e.size,
                             !.keydir = KeyDir_set(w.keydir, key, entry)]
         IN IF ShouldSplit(w1.max_size, w1.size) THEN split(w1) ELSE w1

\* DiskStorage.set
DiskStorage_set(w, key, value, timestamp) ==
    IF DOMAIN w.registry = {} THEN Raise(w, "ValueError: Empty registry is not allowed")
    ELSE IF active_file_id(w.registry) \notin DOMAIN w.fds
    THEN Raise(w, "ValueError: File not opened")
    ELSE LET active == active_file_id(w.registry)
             path == w.fds[active]
             e == encode_kv(timestamp, key, value)
             offset == w.size
             entry == KeyDirEntry(active, e.size, offset, timestamp)
             w1 == [w EXCEPT !.disk = DictSet(w.disk, path, WriteAt(w.disk[path], offset, e.data)),
                             !.fpos = DictSet(w.fpos, active, offset + Len(e.data)),
                             !.size = w.size + 4 + HEADER_SIZE + e.size,
                             !.keydir = KeyDir_set(w.keydir, key, entry)]
         IN IF ShouldSplit(w1.max_size, w1.size) THEN split(w1) ELSE w1

\* Mutant of DiskStorage.get: the KeyDir is indexed without the None test.
DiskStorage_get_NoMissingCheck(w, key) ==
    IF key \notin DOMAIN w.keydir THEN [exc |-> "KeyError", value |-> <<>>]
    ELSE LET entry == w.keydir[key]
             d == decode_kv(ReadAt(w.disk[w.fds[entry.file_id]], entry.pos,
                                   4 + HEADER_SIZE + entry.size))
         IN IF d.exc # NoExc THEN [exc |-> d.exc, value |-> <<>>]
            ELSE IF key # d.key
            THEN [exc |-> "ValueError: Different keys", value |-> <<>>]
            ELSE [exc |-> NoExc, value |-> d.value]

\* DiskStorage.get: the value returned, or the exception raised.
DiskStorage_get(w, key) ==
    IF key \notin DOMAIN w.keydir THEN [exc |-> NoExc, value |-> <<>>]
    ELSE LET entry == w.keydir[key]
         IN IF entry.file_id \notin DOMAIN w.fds
            THEN [exc |-> "ValueError: File not opened", value |-> <<>>]
            ELSE LET d == decode_kv(ReadAt(w.disk[w.fds[entry.file_id]], entry.pos,
                                           4 + HEADER_SIZE + entry.size))
                 IN IF d.exc # NoExc THEN [exc |-> d.exc, value |-> <<>>]
                    ELSE IF key # d.key
                    THEN [exc |-> "ValueError: Different keys", value |-> <<>>]
                    ELSE [exc |-> NoExc, value |-> d.value]

\* Mutant of what DiskStorage.get leaves behind: the entry is popped from
\* the KeyDir.
DiskStorage_get_moves_Pops(w, key) ==
    IF key \notin DOMAIN w.keydir THEN w
    ELSE LET entry == w.keydir[key]
         IN IF entry.file_id \notin DOMAIN w.fds THEN w
            ELSE [Moved(w, entry.file_id,
                        TellAfterRead(w.disk[w.fds[entry.file_id]], entry.pos,
                                      4 + HEADER_SIZE + entry.size))
                    EXCEPT !.keydir = KeyDir_delete(w.keydir, key)]

\* DiskStorage.get: what the call leaves behind; the file object it read from
\* stands after the bytes read.
DiskStorage_get_moves(w, key) ==
    IF key \notin DOMAIN w.keydir THEN w
    ELSE LET entry == w.keydir[key]
         IN IF entry.file_id \notin DOMAIN w.fds THEN w
            ELSE Moved(w, entry.file_id,
                       TellAfterRead(w.disk[w.fds[entry.file_id]], entry.pos,
                                     4 + HEADER_SIZE + entry.size))

\* DiskStorage.delete
DiskStorage_delete(w, key, timestamp) ==
    LET w1 == DiskStorage_set(w, key, <<>>, timestamp)
    IN IF w1.exc # NoExc THEN w1
       ELSE [w1 EXCEPT !.keydir = KeyDir_delete(w1.keydir, key)]

\* Mutant of the loop of compact over the keys: nothing is rewritten.
CompactRewrite_SkipsSet(w, keys, timestamp) == w

RECURSIVE CompactRewrite(_, _, _)
\* The loop of compact over the keys: get, then set.
CompactRewrite(w, keys, timestamp) ==
    IF keys = <<>> \/ w.exc # NoExc THEN w
    ELSE LET g == DiskStorage_get(w, Head(keys))
             w1 == DiskStorage_get_moves(w, Head(keys))
         IN IF g.exc # NoExc THEN Raise(w1, g.exc)
            ELSE CompactRewrite(DiskStorage_set(w1, Head(keys), g.value, timestamp),
                                Tail(keys), timestamp)

RECURSIVE CompactRemove_KeepsHandle(_, _)
\* Mutant of the loop of compact over the retired ids: the handle stays open.
CompactRemove_KeepsHandle(w, ids) ==
    IF ids = <<>> \/ w.exc # NoExc THEN w
    ELSE CompactRemove_KeepsHandle(Registry_remove_file(w, Head(ids)), Tail(ids))

RECURSIVE CompactRemove(_, _)
\* The loop of compact over the retired ids: close the handle, remove the file.
CompactRemove(w, ids) ==
    IF ids = <<>> \/ w.exc # NoExc THEN w
    ELSE LET w1 == FileDescriptors_close(w, Head(ids))
         IN IF w1.exc # NoExc THEN w1
            ELSE CompactRemove(Registry_remove_file(w1, Head(ids)), Tail(ids))

\* Mutant of DiskStorage.compact: the ids to retire are listed after the
\* new file was added.
DiskStorage_compact_SnapshotAfterAdd(w, timestamp) ==
    LET w1 == registry_add_file(w)
        sorted_file_ids == sorted_key_ids(w1.registry)
        w2 == CompactRewrite(w1, KeyDir_keys(w1.keydir), timestamp)
        w3 == CompactRemove(w2, sorted_file_ids)
    IN IF w3.exc # NoExc THEN w3 ELSE Registry_save(w3)

\* Mutant of DiskStorage.compact: the registry is not saved after the
\* retired ids were removed.
DiskStorage_compact_NoSave(w, timestamp) ==
    LET sorted_file_ids == sorted_key_ids(w.registry)
        w1 == registry_add_file(w)
        w2 == CompactRewrite(w1, KeyDir_keys(w1.keydir), timestamp)
    IN CompactRemove(w2, sorted_file_ids)

\* DiskStorage.compact
DiskStorage_compact(w, timestamp) ==
    LET sorted_file_ids == sorted_key_ids(w.registry)
        w1 == registry_add_file(w)
        w2 == CompactRewrite(w1, KeyDir_keys(w1.keydir), timestamp)
        w3 == CompactRemove(w2, sorted_file_ids)
    IN IF w3.exc # NoExc THEN w3 ELSE Registry_save(w3)

RECURSIVE CloseLoop(_, _)
CloseLoop(w, ids) ==
    IF ids = <<>> \/ w.exc # NoExc THEN w
    ELSE CloseLoop(FileDescriptors_close(w, Head(ids)), Tail(ids))

\* DiskStorage.close
DiskStorage_close(w) == CloseLoop(w, sorted_key_ids(w.registry))

\* DiskStorage.scan
DiskStorage_scan(w, start, end) == KeyDir_range(w.keydir, start, end)

\* DiskStorage.scan: what the call leaves behind; KeyDir.range indexes the
\* sorted keys and changes nothing.
DiskStorage_scan_leaves(w, start, end) == w

\* ------------------------------------------------------------------------
\* The store as a state machine
\* ------------------------------------------------------------------------

VARIABLES
    max_size,       \* DiskStorage._max_size
    size,           \* DiskStorage._size, the active file size
    registry,       \* Registry._registry: file id -> file name
    fds,            \* FileDescriptors._fds: file id -> the open file
    fpos,           \* file id -> the position of the open file object
    keydir,         \* KeyDir._dir: key -> KeyDirEntry
    disk,           \* the segment files of the directory: name -> bytes
    registry_json,  \* the registry file
    now,            \* the wall clock read by DiskStorage._timestamp
    state,          \* lifecycle of the DiskStorage object: "Open" or "Closed"
    hist,           \* history: the public operations called so far
    closed_view,    \* history: what get returned for each key when close was called
    prev,           \* history: the state in which the last operation was called
    corrupt,        \* history: the byte of a segment file changed from outside, if any
    allocated,      \* history: every file id the Registry has held so far
    read            \* history: "get" or "scan" when the last call was one, else "none"

vars == <<max_size, size, registry, fds, fpos, keydir, disk, registry_json, now, state,
          hist, closed_view, prev, corrupt, allocated, read>>

\* The DiskStorage object and its directory as one record.
World ==
    [max_size |-> max_size, size |-> size, registry |-> registry, fds |-> fds,
     fpos |-> fpos,
     keydir |-> keydir, disk |-> disk, registry_json |-> registry_json, exc |-> NoExc]

\* The state after an operation that left the record w.
Install(w) ==
    /\ max_size' = w.max_size
    /\ size' = w.size
    /\ registry' = w.registry
    /\ fds' = w.fds
    /\ fpos' = w.fpos
    /\ keydir' = w.keydir
    /\ disk' = w.disk
    /\ registry_json' = w.registry_json
    /\ allocated' = allocated \cup DOMAIN w.registry

\* store.get(key) in the current state.
Get(key) == DiskStorage_get(World, key)

\* list(store.scan(start, end)) in the current state.
Scan(start, end) == DiskStorage_scan(World, start, end)

\* What is remembered of the state an operation is called in.
Snapshot ==
    [view |-> [k \in Keys |-> Get(k)], registry |-> registry, disk |-> disk,
     size |-> size, max_size |-> max_size, fpos |-> fpos, allocated |-> allocated,
     fds |-> fds, keydir |-> keydir]

\* A history entry: the call, the exception it raised, and the max_size of
\* the object it was made on.
Called(op, key, value, w) ==
    [op |-> op, key |-> key, value |-> value, exc |-> w.exc, max_size |-> w.max_size]

\* No byte has been changed from outside.
NotCorrupt ==
    [done |-> FALSE, when |-> "never", at |-> 0, path |-> <<>>, pos |-> 0,
     field |-> "none",
     key |-> <<>>, referenced |-> FALSE]

\* The operation called last.
LastOp == IF hist = <<>> THEN "init" ELSE hist[Len(hist)].op

\* DiskStorage(file_name, max_size) on a path that does not exist yet.
Init ==
    \E m \in MaxSizes :
        LET w == DiskStorage_init(m, EmptyDict, [exists |-> FALSE, obj |-> EmptyDict])
        IN /\ max_size = w.max_size
           /\ size = w.size
           /\ registry = w.registry
           /\ fds = w.fds
           /\ fpos = w.fpos
           /\ keydir = w.keydir
           /\ disk = w.disk
           /\ registry_json = w.registry_json
           /\ now = CHOOSE t \in Timestamps : \A u \in Timestamps : t <= u
           /\ state = "Open"
           /\ hist = <<>>
           /\ closed_view = [k \in Keys |-> <<>>]
           /\ prev = [view |-> [k \in Keys |-> DiskStorage_get(w, k)],
                      registry |-> w.registry, disk |-> w.disk,
                      size |-> w.size, max_size |-> w.max_size, fpos |-> w.fpos,
                      allocated |-> {}, fds |-> w.fds, keydir |-> w.keydir]
           /\ corrupt = NotCorrupt
           /\ allocated = DOMAIN w.registry
           /\ read = "none"

\* The clock readings of a newly opened session: the clock never runs
\* backwards, and may have advanced since the last session.  The calls of
\* one session fall within one second: DiskStorage._timestamp rounds to
\* whole seconds.
ClockReadings == {t \in Timestamps : t = now \/ t = now + 1}

\* store.set(key, value)
Set ==
    /\ prev' = Snapshot
    /\ read' = "none"
    /\ UNCHANGED corrupt
    /\ state = "Open"
    /\ Len(hist) < MaxOps
    /\ \E key \in Keys, value \in Values :
          LET w == DiskStorage_set(World, key, value, now)
          IN /\ Install(w)
             /\ hist' = Append(hist, Called("set", key, value, w))
    /\ UNCHANGED <<now, state, closed_view>>

\* store.delete(key)
Delete ==
    /\ prev' = Snapshot
    /\ read' = "none"
    /\ UNCHANGED corrupt
    /\ state = "Open"
    /\ Len(hist) < MaxOps
    /\ \E key \in Keys :
          LET w == DiskStorage_delete(World, key, now)
          IN /\ Install(w)
             /\ hist' = Append(hist, Called("delete", key, <<>>, w))
    /\ UNCHANGED <<now, state, closed_view>>

\* store.split()
Split ==
    /\ prev' = Snapshot
    /\ read' = "none"
    /\ UNCHANGED corrupt
    /\ state = "Open"
    /\ Len(hist) < MaxOps
    /\ LET w == split(World)
       IN /\ Install(w)
          /\ hist' = Append(hist, Called("split", <<>>, <<>>, w))
    /\ UNCHANGED <<now, state, closed_view>>

\* store.compact()
Compact ==
    /\ prev' = Snapshot
    /\ read' = "none"
    /\ UNCHANGED corrupt
    /\ state = "Open"
    /\ Len(hist) < MaxOps
    /\ LET w == DiskStorage_compact(World, now)
       IN /\ Install(w)
          /\ hist' = Append(hist, Called("compact", <<>>, <<>>, w))
    /\ UNCHANGED <<now, state, closed_view>>

\* store.close()
Close ==
    /\ prev' = Snapshot
    /\ read' = "none"
    /\ UNCHANGED corrupt
    /\ state = "Open"
    /\ Len(hist) < MaxOps
    /\ LET w == DiskStorage_close(World)
       IN /\ Install(w)
          /\ hist' = Append(hist, Called("close", <<>>, <<>>, w))
    /\ closed_view' = [k \in Keys |-> Get(k).value]
    /\ state' = "Closed"
    /\ UNCHANGED now

\* store.close() on a store object that close() has already been called on.
CloseAgain ==
    /\ prev' = Snapshot
    /\ read' = "none"
    /\ UNCHANGED corrupt
    /\ state = "Closed"
    /\ LastOp = "close"
    /\ Len(hist) < MaxOps
    /\ LET w == DiskStorage_close(World)
       IN /\ Install(w)
          /\ hist' = Append(hist, Called("close", <<>>, <<>>, w))
    /\ UNCHANGED <<now, state, closed_view>>

\* DiskStorage(file_name, max_size) at the path of a closed store.
Open ==
    /\ prev' = Snapshot
    /\ read' = "none"
    /\ UNCHANGED corrupt
    /\ state = "Closed"
    /\ Len(hist) < MaxOps
    /\ \E m \in MaxSizes, timestamp \in ClockReadings :
          LET w == DiskStorage_init(m, disk, registry_json)
          IN /\ Install(w)
             /\ hist' = Append(hist, Called("open", <<>>, <<>>, w))
             /\ state' = IF w.exc = NoExc THEN "Open" ELSE "Closed"
             /\ now' = timestamp
    /\ UNCHANGED closed_view

Next == Set \/ Delete \/ Split \/ Compact \/ Close \/ CloseAgain \/ Open

Spec == Init /\ [][Next]_vars

\* store.get(key): the value is handed to the caller, the file object read
\* from is left standing after the record.
GetOp ==
    /\ state = "Open"
    /\ \E key \in Keys : fpos' = DiskStorage_get_moves(World, key).fpos
    /\ UNCHANGED <<max_size, size, registry, fds, keydir, disk, registry_json, now,
                   state, hist, closed_view, prev, corrupt, allocated, read>>

\* The store used with gets between the other calls.
NextGets == Next \/ GetOp

SpecGets == Init /\ [][NextGets]_vars

\* store.get(key) as a call of its own: what it leaves behind is the state.
GetCall ==
    /\ prev' = Snapshot
    /\ read' = "get"
    /\ state = "Open"
    /\ \E key \in Keys : Install(DiskStorage_get_moves(World, key))
    /\ UNCHANGED <<now, state, hist, closed_view, corrupt>>

\* list(store.scan(start, end)) as a call of its own.
ScanCall ==
    /\ prev' = Snapshot
    /\ read' = "scan"
    /\ state = "Open"
    /\ \E start, end \in ScanBounds : Install(DiskStorage_scan_leaves(World, start, end))
    /\ UNCHANGED <<now, state, hist, closed_view, corrupt>>

\* The store used with get and scan calls between the other calls, the
\* other calls being one fewer than without them.
NextReads == Len(hist) + 2 <= MaxOps /\ (Next \/ GetCall \/ ScanCall)

SpecReads == Init /\ [][NextReads]_vars

\* ------------------------------------------------------------------------
\* A file in the way of the next segment
\* ------------------------------------------------------------------------

\* A file of the directory bears the name of no segment the Registry has
\* ever held, or a call has already failed on such a file.
Strayed ==
    \/ \E path \in DOMAIN disk : \A file_id \in allocated : DataFileName(file_id) # path
    \/ \E i \in 1 .. Len(hist) : hist[i].exc = "RuntimeError: File already exist"

\* An empty file with the name the next segment would get appears in the
\* directory of an open store, put there by something other than the engine.
StrayFile ==
    /\ ~Strayed
    /\ state = "Open"
    /\ Len(hist) + 3 <= MaxOps
    /\ disk' = DictSet(disk, DataFileName(active_file_id(registry) + 1), <<>>)
    /\ UNCHANGED <<max_size, size, registry, fds, fpos, keydir, registry_json, now,
                   state, hist, closed_view, prev, corrupt, allocated, read>>

\* The store is used, such a file appears once, and the store is used on;
\* the calls before the file appears leave room for three calls after it.
NextStray ==
    \/ (Strayed \/ Len(hist) + 4 <= MaxOps) /\ Next
    \/ StrayFile

SpecStray == Init /\ [][NextStray]_vars

\* ------------------------------------------------------------------------
\* A segment file damaged from outside
\* ------------------------------------------------------------------------

RECURSIVE RecordAt(_, _, _)
\* The record of an undamaged file that holds the byte at the given offset.
RecordAt(content, pos, offset) ==
    LET h == decode_header(ReadAt(content, pos + 4, HEADER_SIZE))
        read_size == 4 + HEADER_SIZE + h.key_size + h.value_size
    IN IF offset < pos + read_size
       THEN [pos |-> pos, key_size |-> h.key_size, value_size |-> h.value_size,
             key |-> Utf8Decode(ReadAt(content, pos + 4 + HEADER_SIZE, h.key_size))]
       ELSE RecordAt(content, pos + read_size, offset)

\* The field of the record in which the byte at the given offset lies.
FieldAt(rec, offset) ==
    LET o == offset - rec.pos
    IN IF o < 4 THEN "crc"
       ELSE IF o < 8 THEN "timestamp"
       ELSE IF o < 12 THEN "key_size"
       ELSE IF o < 4 + HEADER_SIZE THEN "value_size"
       ELSE IF o < 4 + HEADER_SIZE + rec.key_size THEN "key"
       ELSE "value"

\* The values a damaged byte may take.
Mutations(b) == {(b + 1) % 256} \cup (IF b >= 1 THEN {b - 1} ELSE {})

\* One byte of one segment file is changed behind the engine's back, while
\* the store is open or between two sessions.
Corrupt ==
    /\ ~corrupt.done
    /\ Len(hist) + 2 <= MaxOps
    /\ \E file_id \in DOMAIN registry :
         LET path == data_path(registry, file_id)
         IN /\ path \in DOMAIN disk
            /\ \E i \in 1 .. Len(disk[path]) :
                 \E b \in Mutations(disk[path][i]) :
                    LET rec == RecordAt(disk[path], 0, i - 1)
                    IN /\ disk' = [disk EXCEPT ![path][i] = b]
                       /\ corrupt' = [done |-> TRUE, when |-> state, at |-> Len(hist),
                                      path |-> path, pos |-> i - 1,
                                      field |-> FieldAt(rec, i - 1), key |-> rec.key,
                                      referenced |-> /\ rec.key \in DOMAIN keydir
                                                     /\ keydir[rec.key].file_id = file_id
                                                     /\ keydir[rec.key].pos = rec.pos]
    /\ UNCHANGED <<max_size, size, registry, fds, fpos, keydir, registry_json, now,
                   state, hist, closed_view, prev, allocated, read>>

\* The last call is a constructor call made after the byte was damaged.
OpenedAfterDamage == corrupt.done /\ Len(hist) > corrupt.at /\ LastOp = "open"

\* The store is used, a byte is damaged once, and the store is then closed,
\* if it was open, and opened once more; the calls before the damage leave
\* room for the two calls after it.
NextCorrupt ==
    \/ ~corrupt.done /\ Len(hist) + 3 <= MaxOps /\ Next
    \/ Corrupt
    \/ corrupt.done /\ ~OpenedAfterDamage /\ (Close \/ Open)

SpecCorrupt == Init /\ [][NextCorrupt]_vars

\* ------------------------------------------------------------------------
\* Reading the history
\* ------------------------------------------------------------------------

\* What get returns when it returns the value v.
Returned(v) == [exc |-> NoExc, value |-> v]

LastCall == hist[Len(hist)]

RECURSIVE LastWrite(_, _, _, _)
\* The latest set or delete of key k among h[1..i]; with session, only among
\* the calls made since the store was last opened.
LastWrite(h, k, i, session) ==
    IF i = 0 \/ (session /\ h[i].op = "open") THEN [op |-> "none", value |-> <<>>]
    ELSE IF h[i].op \in {"set", "delete"} /\ h[i].key = k
         THEN [op |-> h[i].op, value |-> h[i].value]
         ELSE LastWrite(h, k, i - 1, session)

\* The value of the last set(k, v) not followed by a delete(k), else "".
Expected(k) == LastWrite(hist, k, Len(hist), FALSE).value

\* Bytes of the record that set(key, value) appends.
FrameSize(key, value) == 4 + HEADER_SIZE + Len(Utf8Encode(key)) + Len(Utf8Encode(value))

OpsOf(h) == {h[i].op : i \in 1 .. Len(h)}

\* ------------------------------------------------------------------------
\* Claims
\* ------------------------------------------------------------------------

\* C1: in one session, after any sequence of set, delete, split and compact,
\* get(k) returns the value of the most recent set(k, v) of that session:
\* right after the set, after an overwrite, and after delete(k) then set(k, v).
C1_GetReturnsLastSet ==
    state = "Open" =>
        \A k \in Keys :
            LET lw == LastWrite(hist, k, Len(hist), TRUE)
            IN (Len(k) >= 1 /\ lw.op = "set") => Get(k) = Returned(lw.value)

\* C1 witness: a key was set, deleted and set again to a non-empty value in
\* one session that also compacted or split, and get returns the new value.
C1_Witness ==
    /\ state = "Open"
    /\ "open" \notin OpsOf(hist)
    /\ \E i, j, l \in 1 .. Len(hist) :
          /\ i < j /\ j < l
          /\ hist[i].op = "set" /\ hist[j].op = "delete" /\ hist[l].op = "set"
          /\ hist[i].key = hist[j].key /\ hist[j].key = hist[l].key
          /\ hist[l].value # <<>> /\ hist[l].value # hist[i].value
          /\ LastWrite(hist, hist[l].key, Len(hist), TRUE).value = hist[l].value
          /\ Get(hist[l].key) = Returned(hist[l].value)
    /\ OpsOf(hist) \cap {"compact", "split"} # {}

\* C2: after any sequence of set and delete (with or without rollover),
\* close and re-open give a store where get(k) is the value of the last
\* set(k, v) not followed by delete(k), and "" otherwise.
C2_ReopenRebuildsView ==
    (state = "Open" /\ LastOp = "open" /\ OpsOf(hist) \subseteq {"set", "delete", "close", "open"})
        => \A k \in Keys : Get(k) = Returned(Expected(k))

\* C2 witness: a re-opened store with several segments in which one key was
\* deleted and the other key reads the value last set.
C2_Witness ==
    /\ state = "Open" /\ LastOp = "open"
    /\ OpsOf(hist) \subseteq {"set", "delete", "close", "open"}
    /\ Cardinality(DOMAIN registry) >= 2
    /\ \E k \in Keys : LastWrite(hist, k, Len(hist), FALSE).op = "delete"
    /\ \E k \in Keys : Expected(k) # <<>> /\ Get(k) = Returned(Expected(k))

\* C3: compact() leaves the visible state unchanged: for every key, get
\* right after compact returns what it returned right before, also when
\* rollover fires in the rewrite loop.
C3_CompactKeepsView ==
    (state = "Open" /\ LastOp = "compact") => \A k \in Keys : Get(k) = prev.view[k]

\* C3 witness: a compaction has just run, rollover fired while it rewrote
\* the keys (more than one segment survives), and a key reads a value.
C3_Witness ==
    /\ state = "Open" /\ LastOp = "compact"
    /\ Cardinality(DOMAIN registry) >= 2
    /\ \E k \in Keys : Get(k).exc = NoExc /\ Get(k).value # <<>>

\* C4: after compact() every segment id that was in the Registry when it
\* was called is gone from the Registry, its file is gone from disk, and
\* the Registry holds at least one segment, all of them newer.
C4_CompactRetiresSegments ==
    (state = "Open" /\ LastOp = "compact") =>
        /\ \A id \in DOMAIN prev.registry :
              id \notin DOMAIN registry /\ prev.registry[id] \notin DOMAIN disk
        /\ DOMAIN registry # {}
        /\ \A n \in DOMAIN registry : \A id \in DOMAIN prev.registry : n > id

\* C4 witness: a compaction has retired two or more segments, one of which
\* held records.
C4_Witness ==
    /\ state = "Open" /\ LastOp = "compact"
    /\ Cardinality(DOMAIN prev.registry) >= 2
    /\ \E id \in DOMAIN prev.registry : prev.disk[prev.registry[id]] # <<>>
    /\ DOMAIN disk \cap {prev.registry[id] : id \in DOMAIN prev.registry} = {}
    /\ DOMAIN registry # {}

\* The history is some sets, then compact, close and a re-open.
SetsCompactCloseOpen ==
    LET n == Len(hist)
    IN /\ n >= 4
       /\ hist[n].op = "open" /\ hist[n - 1].op = "close" /\ hist[n - 2].op = "compact"
       /\ \A i \in 1 .. n - 3 : hist[i].op = "set"

\* C5: after some sets, compact(), close() and a re-open at the same path
\* (with the same or another max_size), get returns for every key what it
\* returned before the close.
C5_CompactedStoreReopens ==
    (state = "Open" /\ SetsCompactCloseOpen) =>
        \A k \in Keys : Get(k) = Returned(closed_view[k])

\* C5 witness: such a store, compacted under a size limit and re-opened
\* unlimited, reads a non-empty value.
C5_Witness ==
    /\ state = "Open" /\ SetsCompactCloseOpen
    /\ hist[Len(hist) - 1].max_size # -1 /\ max_size = -1
    /\ \E k \in Keys : closed_view[k] # <<>> /\ Get(k) = Returned(closed_view[k])

\* C6: after delete(k), get(k) returns "" and get(j) is unchanged for every
\* other key j, also when the tombstone write rolls the segment over.
C6_DeleteHidesOnlyItsKey ==
    (state = "Open" /\ LastOp = "delete") =>
        /\ Get(LastCall.key) = Returned(<<>>)
        /\ \A j \in Keys \ {LastCall.key} : Get(j) = prev.view[j]

\* C6 witness: a delete of a key that read a value rolled the segment over,
\* and another key still reads its value.
C6_Witness ==
    /\ state = "Open" /\ LastOp = "delete"
    /\ size = 0
    /\ Cardinality(DOMAIN registry) > Cardinality(DOMAIN prev.registry)
    /\ prev.view[LastCall.key].value # <<>>
    /\ Get(LastCall.key) = Returned(<<>>)
    /\ \E j \in Keys \ {LastCall.key} : Get(j).value # <<>> /\ Get(j) = prev.view[j]

\* The live keys: those whose last write is a set not followed by a delete.
LiveKeys == {k \in Keys : LastWrite(hist, k, Len(hist), FALSE).op = "set"}

\* C7: in every Open state scan(start, end) yields exactly the live keys k
\* with start <= k <= end, each once, in ascending order, endpoints included.
C7_ScanYieldsLiveKeys ==
    state = "Open" =>
        \A start, end \in ScanBounds :
            Scan(start, end) =
                SortedStrs({k \in LiveKeys : StrLeq(start, k) /\ StrLeq(k, end)})

RECURSIVE TotalRecordBytes(_, _)
\* Bytes of the records written by the sets and deletes among h[1..i].
TotalRecordBytes(h, i) ==
    IF i = 0 THEN 0
    ELSE TotalRecordBytes(h, i - 1)
         + (IF h[i].op \in {"set", "delete"} THEN FrameSize(h[i].key, h[i].value) ELSE 0)

\* The segments a set would append to: those whose file a set changes.
ActiveSegments ==
    LET w == DiskStorage_set(World, CHOOSE k \in Keys : TRUE, <<>>, now)
    IN {id \in DOMAIN registry : w.disk[registry[id]] # disk[registry[id]]}

\* C8: on a fresh store with max_size = M >= 0, once the sets and deletes
\* have written more than M bytes of records the Registry holds at least two
\* segments, exactly one is active, and it is the one with the largest id.
C8_RolloverBookkeeping ==
    (/\ state = "Open"
     /\ OpsOf(hist) \subseteq {"set", "delete"}
     /\ max_size >= 0
     /\ TotalRecordBytes(hist, Len(hist)) > max_size) =>
        /\ Cardinality(DOMAIN registry) >= 2
        /\ Cardinality(ActiveSegments) = 1
        /\ \A a \in ActiveSegments : \A id \in DOMAIN registry : id <= a

\* C8 witness: the writes exceeded M only with the second record.
C8_Witness ==
    /\ state = "Open"
    /\ OpsOf(hist) \subseteq {"set", "delete"}
    /\ max_size >= 0
    /\ Len(hist) >= 2
    /\ TotalRecordBytes(hist, 1) <= max_size
    /\ TotalRecordBytes(hist, Len(hist)) > max_size
    /\ Cardinality(DOMAIN registry) >= 2

\* C9: a set rolls over exactly when max_size is not unlimited and
\* active_size after the write is strictly greater than max_size.
C9_RolloverExactlyAbove ==
    (state = "Open" /\ LastOp = "set") =>
        LET after == prev.size + FrameSize(LastCall.key, LastCall.value)
            rolled == DOMAIN registry # DOMAIN prev.registry
        IN /\ rolled <=> (prev.max_size # -1 /\ after > prev.max_size)
           /\ rolled => Cardinality(DOMAIN registry) = Cardinality(DOMAIN prev.registry) + 1
           /\ size = IF rolled THEN 0 ELSE after

\* C9 witness: a set brought active_size to exactly max_size and no segment
\* was created.
C9_Witness ==
    /\ state = "Open" /\ LastOp = "set"
    /\ max_size # -1
    /\ prev.size + FrameSize(LastCall.key, LastCall.value) = max_size
    /\ size = max_size
    /\ registry = prev.registry

\* C10: get(k) for a key that is not in KeyDir (never written, or deleted in
\* this session) returns the empty string and raises nothing.
C10_MissingKeyReadsEmpty ==
    state = "Open" => \A k \in Keys \ DOMAIN keydir : Get(k) = Returned(<<>>)

\* C10 witness: one key was set and then deleted in this session, the other
\* was never written, and get returns "" for both.
C10_Witness ==
    /\ state = "Open"
    /\ \E k1, k2 \in Keys \ DOMAIN keydir :
          /\ LastWrite(hist, k1, Len(hist), TRUE).op = "delete"
          /\ \E i \in 1 .. Len(hist) : hist[i].op = "set" /\ hist[i].key = k1
                                       /\ hist[i].value # <<>>
          /\ LastWrite(hist, k2, Len(hist), FALSE).op = "none"
          /\ Get(k1) = Returned(<<>>) /\ Get(k2) = Returned(<<>>)

\* ------------------------------------------------------------------------
\* C11: a damaged byte and the checksum
\* ------------------------------------------------------------------------

\* The error the spec calls BadChecksum.
BadChecksum == "ValueError: Wrong CRC"

\* The store was open when the byte was damaged and nothing was called since.
ReadAfterDamage == corrupt.done /\ corrupt.when = "Open" /\ Len(hist) = corrupt.at

\* The damaged byte lies in a field the CRC is computed over, or in the CRC.
CrcCovered == corrupt.field \in {"crc", "timestamp", "key", "value"}

\* C11 as stated: whichever byte of whichever record is damaged, the next get
\* of the record's key and the next startup replay fail with BadChecksum.
C11_AnyByteMutationBadChecksum ==
    /\ ReadAfterDamage => Get(corrupt.key).exc = BadChecksum
    /\ OpenedAfterDamage => LastCall.exc = BadChecksum

\* C11 amended: when the damaged byte lies in the CRC, the timestamp, the key
\* bytes or the value bytes of a record, the next startup replay fails with
\* BadChecksum, and so does the next get of the record's key when the record
\* is the one KeyDir references for that key.
C11_CoveredByteMutationBadChecksum ==
    /\ ReadAfterDamage /\ CrcCovered /\ corrupt.referenced
           => Get(corrupt.key).exc = BadChecksum
    /\ OpenedAfterDamage /\ CrcCovered => LastCall.exc = BadChecksum

\* A value byte of the record KeyDir references was damaged and get fails
\* with BadChecksum.
C11_Witness ==
    /\ ReadAfterDamage /\ corrupt.referenced /\ corrupt.field = "value"
    /\ Get(corrupt.key).exc = BadChecksum

\* ------------------------------------------------------------------------
\* C12: close() called twice
\* ------------------------------------------------------------------------

\* The last call is a close() on a store object that was already closed.
SecondClose ==
    /\ Len(hist) >= 2
    /\ hist[Len(hist)].op = "close"
    /\ hist[Len(hist) - 1].op = "close"

\* C12: a second close() on a closed store completes without raising.
C12_SecondCloseRaisesNothing == SecondClose => LastCall.exc = NoExc

\* ------------------------------------------------------------------------
\* C13: KeyDir and tombstones
\* ------------------------------------------------------------------------

\* The header of the record a KeyDir entry references.
EntryHeader(entry) ==
    decode_header(ReadAt(disk[data_path(registry, entry.file_id)], entry.pos + 4,
                         HEADER_SIZE))

\* C13: in every Open state no KeyDir entry references a tombstone, a record
\* whose value_size is 0.
C13_KeyDirHoldsNoTombstone ==
    state = "Open" =>
        \A k \in DOMAIN keydir : EntryHeader(keydir[k]).value_size # 0

\* ------------------------------------------------------------------------
\* C14: KeyDir entries and the records they reference
\* ------------------------------------------------------------------------

\* The entry of key k names a registered segment with an open handle, and the
\* 16 + size bytes at its position are a whole record of key k.
EntryIsSound(k) ==
    LET entry == keydir[k]
    IN /\ entry.file_id \in DOMAIN registry
       /\ entry.file_id \in DOMAIN fds
       /\ fds[entry.file_id] = data_path(registry, entry.file_id)
       /\ LET data == ReadAt(disk[fds[entry.file_id]], entry.pos,
                             4 + HEADER_SIZE + entry.size)
              h == decode_header(Slice(data, 4, 4 + HEADER_SIZE))
              d == decode_kv(data)
          IN /\ Len(data) = 4 + HEADER_SIZE + entry.size
             /\ h.exc = NoExc
             /\ h.key_size + h.value_size = entry.size
             /\ d.exc = NoExc
             /\ d.key = k

\* C14: in every Open state each KeyDir entry names a registered segment with
\* an open handle and the bytes it delimits are a whole record of its key, so
\* that get of any key raises nothing.
C14_KeyDirEntriesAreSound ==
    state = "Open" =>
        /\ \A k \in DOMAIN keydir : EntryIsSound(k)
        /\ \A k \in Keys : Get(k).exc = NoExc

\* A compaction that rolled over has just returned: KeyDir has an entry in a
\* segment that is not the active one, and no entry in a retired segment.
C14_Witness ==
    /\ state = "Open" /\ LastOp = "compact"
    /\ \E k \in DOMAIN keydir : keydir[k].file_id # active_file_id(registry)
    /\ \A k \in DOMAIN keydir : keydir[k].file_id \notin DOMAIN prev.registry

\* ------------------------------------------------------------------------
\* C15: what compaction leaves on disk
\* ------------------------------------------------------------------------

RECURSIVE RecordsOf(_, _)
\* The records of a file, read one after the other from pos as replay reads
\* them; reading stops at the first record that does not decode.
RecordsOf(content, pos) ==
    IF pos >= Len(content) THEN <<>>
    ELSE LET h == decode_header(ReadAt(content, pos + 4, HEADER_SIZE))
             read_size == 4 + HEADER_SIZE + h.key_size + h.value_size
             d == decode_kv(ReadAt(content, pos, read_size))
             rec == [pos |-> pos, size |-> read_size, timestamp |-> d.timestamp,
                     key |-> d.key, value |-> d.value,
                     exc |-> IF h.exc # NoExc THEN h.exc ELSE d.exc]
         IN IF rec.exc # NoExc THEN <<rec>>
            ELSE <<rec>> \o RecordsOf(content, pos + read_size)

\* The records of one registered segment, each with the id of its segment.
SegmentRecords(file_id) ==
    LET rs == RecordsOf(disk[data_path(registry, file_id)], 0)
    IN {[file_id |-> file_id, rec |-> rs[i]] : i \in 1 .. Len(rs)}

\* The records of all registered segments.
DiskRecords == UNION {SegmentRecords(file_id) : file_id \in DOMAIN registry}

\* compact() has just returned.
Compacted == state = "Open" /\ LastOp = "compact" /\ LastCall.exc = NoExc

\* C15: after compact() the segments hold exactly one record for each key of
\* KeyDir and no other record, and none of the records is a tombstone.
C15_CompactLeavesOneLiveRecordPerKey ==
    Compacted =>
        /\ \A k \in DOMAIN keydir :
               Cardinality({r \in DiskRecords : r.rec.key = k}) = 1
        /\ \A r \in DiskRecords :
               /\ r.rec.exc = NoExc
               /\ r.rec.key \in DOMAIN keydir
               /\ r.rec.value # <<>>

\* ------------------------------------------------------------------------
\* C16: segments without gaps, and the size of the active segment
\* ------------------------------------------------------------------------

\* The file is records written by the engine, one starting where the one
\* before it ends, the first at 0 and the last ending at the file's length.
GapFree(content) ==
    LET rs == RecordsOf(content, 0)
    IN /\ \A i \in 1 .. Len(rs) :
             /\ rs[i].exc = NoExc
             /\ rs[i].timestamp \in Timestamps
             /\ rs[i].pos = IF i = 1 THEN 0 ELSE rs[i - 1].pos + rs[i - 1].size
       /\ Len(content) = IF rs = <<>> THEN 0 ELSE rs[Len(rs)].pos + rs[Len(rs)].size

\* C16: every segment file is a gap-free sequence of records, and while the
\* store is open _size is the length of the segment of greatest id, gets
\* between the other calls included.
C16_SegmentsGapFreeSizeIsLength ==
    /\ \A file_id \in DOMAIN registry : GapFree(disk[data_path(registry, file_id)])
    /\ state = "Open" => size = Len(disk[data_path(registry, active_file_id(registry))])

\* A record was appended after a get had left the file object of the active
\* segment standing before the end of the file.
C16_Witness ==
    /\ state = "Open" /\ LastOp = "set" /\ LastCall.exc = NoExc
    /\ active_file_id(registry) = active_file_id(prev.registry)
    /\ Len(RecordsOf(disk[data_path(registry, active_file_id(registry))], 0)) >= 3
    /\ prev.fpos[active_file_id(registry)] < prev.size

\* ------------------------------------------------------------------------
\* C17: only the segment of greatest id is written
\* ------------------------------------------------------------------------

\* a is the beginning of b.
IsPrefix(a, b) == Len(a) <= Len(b) /\ SubSeq(b, 1, Len(a)) = a

\* The keys of the records of a segment, in file order.
RecordKeys(file_id) ==
    LET rs == RecordsOf(disk[data_path(registry, file_id)], 0)
    IN [i \in 1 .. Len(rs) |-> rs[i].key]

RECURSIVE KeysWritten(_)
\* The keys of the records of the given segments, one segment after the other.
KeysWritten(ids) ==
    IF ids = <<>> THEN <<>> ELSE RecordKeys(Head(ids)) \o KeysWritten(Tail(ids))

\* The segments created by the last call.
NewIds == DOMAIN registry \ DOMAIN prev.registry

\* C17: a call leaves every segment that was not of greatest id when it was
\* called as it was, for as long as the segment exists; it only appends to
\* the one that was of greatest id; and the records of the segments it
\* created are in the order of writing when read in the order of the ids
\* (none for a rollover or a split, the keys of KeyDir for a compaction).
C17_OnlyGreatestIdIsAppendedTo ==
    hist # <<>> =>
        /\ \A file_id \in DOMAIN prev.registry \cap DOMAIN registry :
               LET before == prev.disk[data_path(prev.registry, file_id)]
                   after == disk[data_path(registry, file_id)]
               IN IF file_id = active_file_id(prev.registry)
                  THEN IsPrefix(before, after)
                  ELSE after = before
        /\ \A file_id \in NewIds : \A older \in DOMAIN prev.registry : file_id > older
        /\ KeysWritten(SortedInts(NewIds)) =
               IF LastOp = "compact" THEN KeyDir_keys(keydir) ELSE <<>>

\* A record was appended to the segment of greatest id while an older
\* segment held records.
C17_Witness ==
    /\ state = "Open" /\ LastOp \in {"set", "delete"} /\ NewIds = {}
    /\ Cardinality(DOMAIN prev.registry) >= 2
    /\ \E file_id \in DOMAIN registry :
          /\ file_id # active_file_id(registry)
          /\ disk[data_path(registry, file_id)] # <<>>
    /\ Len(disk[data_path(registry, active_file_id(registry))])
          > Len(prev.disk[data_path(registry, active_file_id(registry))])

\* ------------------------------------------------------------------------
\* C18: the registry file and the Registry in memory
\* ------------------------------------------------------------------------

\* C18: after the constructor and after every set, delete, split and compact
\* the id -> name map read from the registry file is the map of the engine's
\* Registry.
C18_RegistryFileIsRegistry ==
    state = "Open" => Registry_load(registry_json) = registry

\* A compaction has retired segments and created others, and the registry
\* file holds the new map.
C18_Witness ==
    /\ Compacted
    /\ DOMAIN registry \cap DOMAIN prev.registry = {}
    /\ Cardinality(DOMAIN registry) >= 2
    /\ Registry_load(registry_json) = registry

\* ------------------------------------------------------------------------
\* C19: open handles and the Registry
\* ------------------------------------------------------------------------

\* C19: in every Open state the ids with an open file handle are the ids of
\* the Registry, each handle being of the file the Registry names.
C19_HandlesAreRegistryIds ==
    state = "Open" =>
        /\ DOMAIN fds = DOMAIN registry
        /\ \A file_id \in DOMAIN fds : fds[file_id] = data_path(registry, file_id)

\* Startup has opened a handle for each of several registered ids, a call
\* has then created a segment, and a compaction has retired them all.
C19_Witness ==
    /\ Compacted
    /\ Cardinality(DOMAIN prev.registry) >= 2
    /\ DOMAIN fds \cap DOMAIN prev.registry = {}
    /\ DOMAIN fds = DOMAIN registry
    /\ \E i \in 1 .. Len(hist) : hist[i].op = "open"

\* ------------------------------------------------------------------------
\* C20: file ids are not reused
\* ------------------------------------------------------------------------

\* The greatest of a non-empty set of ids.
MaxId(ids) == CHOOSE x \in ids : \A y \in ids : y <= x

\* C20: the first segment of a new store has id 0, and the ids a call creates
\* are the ones following the greatest registered id, each greater than every
\* id the store has ever held, retired ones and earlier sessions included.
C20_IdsNeverReused ==
    /\ hist = <<>> => DOMAIN registry = {0}
    /\ hist # <<>> =>
          /\ NewIds = (MaxId(DOMAIN prev.registry) + 1)
                          .. (MaxId(DOMAIN prev.registry) + Cardinality(NewIds))
          /\ \A file_id \in NewIds : \A old \in prev.allocated : file_id > old

\* A segment is created in a later session than a compaction that retired
\* ids: the new id is above the retired ones.
C20_Witness ==
    /\ NewIds # {}
    /\ prev.allocated \ DOMAIN prev.registry # {}
    /\ \A file_id \in NewIds : \A old \in prev.allocated : file_id > old
    /\ \E i, j \in 1 .. Len(hist) :
          i < j /\ hist[i].op = "compact" /\ hist[j].op = "open"

\* ------------------------------------------------------------------------
\* C21: a split that fails on a name collision
\* ------------------------------------------------------------------------

\* The last call failed because the file of the new segment already exists.
FailedOnCollision ==
    /\ state = "Open"
    /\ hist # <<>>
    /\ LastCall.exc = "RuntimeError: File already exist"

\* C21: a call that fails on the name collision leaves the Registry, the
\* handle table, the active id and _size as they were, and set and get
\* succeed afterwards.
C21_FailedSplitChangesNothing ==
    FailedOnCollision =>
        /\ registry = prev.registry
        /\ fds = prev.fds
        /\ active_file_id(registry) = active_file_id(prev.registry)
        /\ size = prev.size
        /\ \A key \in Keys : Get(key).exc = NoExc
        /\ \A key \in Keys, value \in Values :
               DiskStorage_set(World, key, value, now).exc = NoExc

\* ------------------------------------------------------------------------
\* C22: get and scan change nothing
\* ------------------------------------------------------------------------

\* The file of the segment that was active when the last call was made.
PrevActivePath == data_path(prev.registry, active_file_id(prev.registry))

\* C22: a get or a scan leaves KeyDir, the Registry, every segment file and
\* _size as they were, and a set, however many gets and scans came before
\* it, adds its record at the end of the active segment and leaves every
\* byte that was on disk as it was.
C22_ReadsChangeNothing ==
    /\ read # "none" =>
          /\ keydir = prev.keydir
          /\ registry = prev.registry
          /\ disk = prev.disk
          /\ size = prev.size
    /\ (read = "none" /\ state = "Open" /\ LastOp = "set" /\ LastCall.exc = NoExc) =>
          /\ disk[PrevActivePath] =
                 prev.disk[PrevActivePath]
                    \o encode_kv(keydir[LastCall.key].tstamp, LastCall.key,
                                 LastCall.value).data
          /\ \A path \in DOMAIN prev.disk \ {PrevActivePath} :
                 disk[path] = prev.disk[path]

\* A set has appended its record after a get had left the file object of the
\* active segment before the end of the file, and scans had been made.
C22_Witness ==
    /\ read = "none" /\ state = "Open" /\ LastOp = "set" /\ LastCall.exc = NoExc
    /\ prev.fpos[active_file_id(prev.registry)] < prev.size
    /\ Len(disk[PrevActivePath]) > prev.size

====
